---- MODULE Spec2Model ----
(***************************************************************************)
(* The integral gravity forward operator of SimPEG/PF/Gravity.py:          *)
(* GravityIntegral (the linear operator facade with its lazily built,      *)
(* cached matrix G) and Forward (chunk planner, the three row-assembly     *)
(* backends and the zarr store at Jpath).                                  *)
(*                                                                         *)
(* Numbers.  Receiver locations, cell indices, model values and kernel     *)
(* entries are small integers; the closed-form prism kernel of calcTrow    *)
(* (logarithms and arctangents of float offsets) is represented by Kern,   *)
(* an integer function that is injective in (receiver, cell), because      *)
(* what the assembly does with a row never looks inside its entries.       *)
(* Memory is counted in units of 1e-9 GB (bytes), so that                  *)
(* totRAM > maxRAM of the source is an integer comparison.                 *)
(* None is the empty sequence <<>> for vectors and matrices and the        *)
(* string "None" for the backend selector.                                 *)
(***************************************************************************)
EXTENDS Integers, Sequences, FiniteSets, TLC

\* ------------------------------------------------------------ bounds
MaxND == 2          \* receivers: nD in 1..MaxND
MaxNC == 2          \* active cells: nC in 1..MaxNC
MaxCpu == 2         \* workers: n_cpu in 1..MaxCpu
MaxBudget == 5      \* budgets: maxRAM in {BudgetStep*b : b in 1..MaxBudget}
BudgetStep == 4     \* granularity of the budgets, in bytes
MaxDoublings == 1100 \* cap on the doublings of nChunks (never reached, see C1_PlannerTerminates)
MaxShift == 20      \* largest exponent for which a power of two is computed
MaxRows == 12       \* receivers of the sequential runs of SpecSeq: nD in 1..MaxRows
MaxDim == 2         \* cells of the grid along each axis: 1..MaxDim
MaxMask == 3        \* length of a boolean mask: 1..MaxMask
MaxSel == 2         \* length of an index list: 1..MaxSel
MaxIndex == 2       \* entries of an index list: -1..MaxIndex

\* ------------------------------------------------------------ program constants
ElemSize == 8       \* bytes per float64 entry, the 8 of totRAM
DoubleMinExp == 1075 \* a quotient of at most 2^-1075 is the float 0.0
EquiDepth == 1000   \* what equivalent-source mode lowers the bottom of a cell by

\* ------------------------------------------------------------ helpers
RECURSIVE Pow2(_)
Pow2(e) == IF e = 0 THEN 1 ELSE 2 * Pow2(e - 1)

RECURSIVE SumSeq(_)
SumSeq(s) == IF s = <<>> THEN 0 ELSE Head(s) + SumSeq(Tail(s))

RECURSIVE Flatten(_)
Flatten(M) == IF M = <<>> THEN <<>> ELSE Head(M) \o Flatten(Tail(M))

VARIABLES
    \* configuration of the problem (set at construction)
    nD,            \* number of receivers, rxLoc.shape[0]
    nC,            \* number of active cells, Xn.shape[0]
    n_cpu,         \* worker count
    maxRAM,        \* memory budget, in bytes
    parallelized,  \* backend selector
    forwardOnly,   \* forward-only mode
    storeG,        \* Forward.storeG, the persistence flag
    paired,        \* ispaired
    rhoMap,        \* the model map: "id" or "double"
    trueDiv,       \* TRUE: `/` is true division (Python 3); FALSE: floor (Python 2)
    mesh,          \* the grid: its kind and its cell counts along x, y, z
    actInd,        \* the active-cell selector: None, a boolean mask or an index list
    equiSourceLayer, \* equivalent-source mode
    \* the GravityIntegral instance
    G,             \* self._G, <<>> while unbuilt
    gtgdiag,       \* self.gtgdiag, <<>> while None
    model,         \* self.model, <<>> while None
    Xn, Yn, Zn,    \* the corner arrays of the active cells, <<>> while unset
    \* the store at Jpath
    store,
    \* the running call and its Forward job
    pc, op, dbl, rowChunk, colChunk, rows, running, order,
    \* what the last call returned
    ret, err,
    \* history
    builds,        \* assignments to self._G
    calls,         \* calcTrow invocations of the current job
    store0,        \* the store as the current job found it
    \* Forward.progress
    progressIndex, \* self.progressIndex of the job
    reported,      \* the deciles the job has printed, in order
    \* history of getJtJdiag
    sums           \* evaluations of da.sum(self.G**2., 0), line 77

cfgVars == <<nD, nC, n_cpu, maxRAM, parallelized, forwardOnly, storeG, rhoMap, trueDiv,
             mesh, actInd, equiSourceLayer>>
geom == <<Xn, Yn, Zn>>
progVars == <<progressIndex, reported>>
jobVars == <<dbl, rowChunk, colChunk, rows, running, order, progVars>>
vars == <<nD, nC, n_cpu, maxRAM, parallelized, forwardOnly, storeG, paired, rhoMap,
          trueDiv, G, gtgdiag, model, store, pc, op, dbl, rowChunk, colChunk,
          rows, running, order, ret, err, builds, calls, store0,
          progressIndex, reported, sums, mesh, actInd, equiSourceLayer,
          Xn, Yn, Zn>>

\* ------------------------------------------------------------ inputs
Backends == {"dask", "multiprocessing", "None", "threads", ""}
Recognized == {"dask", "multiprocessing", "None"}
Budgets == {BudgetStep * b : b \in 1..MaxBudget}
NoOp == [name |-> "none", m |-> <<>>, v |-> <<>>]

\* the receivers, in the order of the survey: a fixed, non-monotone layout
rxLoc == [i \in 1..nD |-> nD + 1 - i]

\* ------------------------------------------------------------ chunk planner
\* nChunks = n_cpu * 2^dbl is never formed: after some 1075 doublings it has
\* over a thousand bits.  The quotients n/nChunks are computed from n, n_cpu, dbl.

\* n / (n_cpu * 2^d) as a float is 0.0: n * 2^1075 <= n_cpu * 2^d
UnderflowsNever(n, d) == FALSE
Underflows(n, d) ==
    IF d >= DoubleMinExp
    THEN (d - DoubleMinExp > MaxShift) \/ (n <= n_cpu * Pow2(d - DoubleMinExp))
    ELSE (DoubleMinExp - d <= MaxShift) /\ (n * Pow2(DoubleMinExp - d) <= n_cpu)

\* int(n / nChunks) at nChunks = n_cpu (line 245): truncation in both Pythons
FloorStart(n) == n \div n_cpu

\* int(np.ceil(n / nChunks)) at nChunks = n_cpu * 2^d (line 249)
CeilChunk(n, d) ==
    IF trueDiv
    THEN IF Underflows(n, d) THEN 0
         ELSE IF d > MaxShift THEN 1
         ELSE (n + n_cpu * Pow2(d) - 1) \div (n_cpu * Pow2(d))
    ELSE IF d > MaxShift THEN 0 ELSE n \div (n_cpu * Pow2(d))

\* totRAM, in bytes (lines 246, 250)
TotRAM(r, c) == r * c * ElemSize * n_cpu

\* the loop condition of line 247
OverBudgetLoose == TotRAM(rowChunk, colChunk) > maxRAM + ElemSize * n_cpu
OverBudget == TotRAM(rowChunk, colChunk) > maxRAM

\* Forward.calculate, lines 238-246: a job was built by Intrgl_Fwr_Op and starts
Calculate ==
    /\ pc = "job"
    /\ pc' = "plan"
    /\ dbl' = 0
    /\ rowChunk' = FloorStart(nD)
    /\ colChunk' = FloorStart(nC)
    /\ calls' = 0
    /\ store0' = store
    /\ progressIndex' = -1
    /\ reported' = <<>>
    /\ UNCHANGED <<cfgVars, paired, G, gtgdiag, model, store, op, rows,
                   running, order, ret, err, builds, sums, geom>>

\* one iteration of the while loop, lines 247-250
PlanDouble ==
    /\ pc = "plan"
    /\ OverBudget
    /\ dbl < MaxDoublings
    /\ dbl' = dbl + 1
    /\ rowChunk' = CeilChunk(nD, dbl + 1)
    /\ colChunk' = CeilChunk(nC, dbl + 1)
    /\ UNCHANGED <<cfgVars, paired, G, gtgdiag, model, store, pc, op, rows,
                   running, order, ret, err, builds, calls, store0, progVars, sums, geom>>

\* ------------------------------------------------------------ row kernel
\* the entry of receiver location loc and active cell c (lines 339-375)
Kern(loc, c) == loc * (MaxNC + 1) + c

\* the full 1 x nC row of a receiver
KernRow(loc) == [c \in 1..nC |-> Kern(loc, c)]

\* np.dot(row, x)
Dot(row, x) == SumSeq([c \in 1..Len(row) |-> row[c] * x[c]])

\* Forward.calcTrow, lines 377-380: the row, or in forward-only mode its
\* product with the job's model (an array of shape (1,))
calcTrow(loc) == IF forwardOnly THEN <<Dot(KernRow(loc), model)>> ELSE KernRow(loc)

\* ------------------------------------------------------------ model map
\* rhoMap * m
MapApply(m) == [c \in 1..Len(m) |-> IF rhoMap = "double" THEN 2 * m[c] ELSE m[c]]

\* rhoMap.deriv(m): f times the identity
MapDeriv == IF rhoMap = "double" THEN 2 ELSE 1

\* the model and data vectors the calls are made with
ModelVecs == {[c \in 1..nC |-> 1], [c \in 1..nC |-> c + 1]}
DataVecs == {[i \in 1..nD |-> i]}
Vecs == ModelVecs \cup DataVecs \cup {<<>>}

\* ------------------------------------------------------------ linear algebra
MatVec(M, x) == [i \in 1..Len(M) |-> Dot(M[i], x)]
MatTVec(M, y) == [c \in 1..Len(M[1]) |-> SumSeq([i \in 1..Len(M) |-> M[i][c] * y[i]])]
Scale(f, x) == [c \in 1..Len(x) |-> f * x[c]]
ColSumSq(M) == [c \in 1..Len(M[1]) |-> SumSeq([i \in 1..Len(M) |-> M[i][c] * M[i][c]])]

\* ------------------------------------------------------------ the store at Jpath
NoStore == [exists |-> FALSE, origin |-> "none", data |-> <<>>, written |-> {},
            computed |-> {}]

\* a store left at Jpath by a run on other receivers: same shape, other entries
StaleStore == [exists |-> TRUE, origin |-> "other",
               data |-> [i \in 1..nD |-> KernRow(rxLoc[i] + MaxND)],
               written |-> 1..nD, computed |-> 1..nD]

\* the store a complete da.to_zarr of this problem leaves (lines 282-284)
ValidStore == [exists |-> TRUE, origin |-> "run",
               data |-> [i \in 1..nD |-> KernRow(rxLoc[i])],
               written |-> 1..nD, computed |-> 1..nD]

\* zarr.create inside da.to_zarr (line 284): the array exists, filled with zeros
CreatedStore == [exists |-> TRUE, origin |-> "run",
                 data |-> [i \in 1..nD |-> [c \in 1..nC |-> 0]],
                 written |-> {}, computed |-> {}]

\* the rows of row block b of the rechunked stack (line 279)
BlockRows(b) == {i \in 1..nD : (b - 1) * rowChunk < i /\ i <= b * rowChunk}
Blocks == {b \in 1..nD : BlockRows(b) # {}}

\* ------------------------------------------------------------ geometry
\* The mesh is the collaborator's: a regular grid of mesh.n[1] x mesh.n[2] x
\* mesh.n[3] cells, numbered from 0 with the x index running fastest, given
\* either as a tensor mesh (node vectors) or as a tree mesh (cell centres
\* and widths).  Node a of axis ax is at 10*ax + 2*a, every cell is 2 wide.
NoSelector == [kind |-> "None", val |-> <<>>]
Meshes == {[kind |-> k, n |-> <<a, b, c>>] :
             k \in {"tensor", "tree"}, a \in 1..MaxDim, b \in 1..MaxDim, c \in 1..MaxDim}
Masks == {v \in UNION {[1..l -> BOOLEAN] : l \in 1..MaxMask} : \E p \in DOMAIN v : v[p]}
IndexLists == UNION {[1..l -> (-1)..MaxIndex] : l \in 1..MaxSel}
Selectors == {NoSelector} \cup {[kind |-> "bool", val |-> v] : v \in Masks}
                          \cup {[kind |-> "index", val |-> v] : v \in IndexLists}

\* mesh.nC
meshNC == mesh.n[1] * mesh.n[2] * mesh.n[3]

\* mesh.vectorNx, vectorNy, vectorNz
Node(ax, a) == 10 * ax + 2 * a
vectorN(ax) == [a \in 1..(mesh.n[ax] + 1) |-> Node(ax, a - 1)]

\* the index along axis ax of grid cell g (from 1)
CellIdx(ax, g) ==
    IF ax = 1 THEN (g - 1) % mesh.n[1]
    ELSE IF ax = 2 THEN ((g - 1) \div mesh.n[1]) % mesh.n[2]
    ELSE (g - 1) \div (mesh.n[1] * mesh.n[2])

\* mesh.gridCC[:, ax] and mesh.h_gridded[:, ax] of a tree mesh
gridCC(ax) == [g \in 1..meshNC |-> Node(ax, CellIdx(ax, g)) + 1]
h_gridded(ax) == [g \in 1..meshNC |-> 2]

\* np.meshgrid(a, b, c) with its default 'xy' indexing: three arrays of
\* shape (len(b), len(a), len(c)), the first varying along the second axis
MeshGrid(a, b, c) ==
    <<[i \in 1..Len(b) |-> [j \in 1..Len(a) |-> [k \in 1..Len(c) |-> a[j]]]],
      [i \in 1..Len(b) |-> [j \in 1..Len(a) |-> [k \in 1..Len(c) |-> b[i]]]],
      [i \in 1..Len(b) |-> [j \in 1..Len(a) |-> [k \in 1..Len(c) |-> c[k]]]]>>

\* Utils.mkvc of a 3-D array: flattened with the first index running fastest
mkvcRowMajor(A) ==
    LET n1 == Len(A)
        n2 == Len(A[1])
        n3 == Len(A[1][1])
    IN [p \in 1..(n1 * n2 * n3) |->
          A[((p - 1) \div (n2 * n3)) + 1][(((p - 1) \div n3) % n2) + 1][((p - 1) % n3) + 1]]
mkvc(A) ==
    LET n1 == Len(A)
        n2 == Len(A[1])
        n3 == Len(A[1][1])
    IN [p \in 1..(n1 * n2 * n3) |->
          A[((p - 1) % n1) + 1][(((p - 1) \div n1) % n2) + 1][((p - 1) \div (n1 * n2)) + 1]]

\* v[:-1]
Most(v) == SubSeq(v, 1, Len(v) - 1)

\* xn1, yn1, zn1 and xn2, yn2, zn2 (lines 161-177), flattened as lines
\* 183-185 do; meshgrid is called as (yn, xn, zn) and returns in that order
GridSlot(ax) == IF ax = 1 THEN 2 ELSE IF ax = 2 THEN 1 ELSE 3
Lower(ax) ==
    IF mesh.kind = "tree"
    THEN [g \in 1..meshNC |-> gridCC(ax)[g] - (h_gridded(ax)[g] \div 2)]
    ELSE mkvc(MeshGrid(Most(vectorN(2)), Most(vectorN(1)), Most(vectorN(3)))[GridSlot(ax)])
Upper(ax) ==
    IF mesh.kind = "tree"
    THEN [g \in 1..meshNC |-> gridCC(ax)[g] + (h_gridded(ax)[g] \div 2)]
    ELSE mkvc(MeshGrid(Tail(vectorN(2)), Tail(vectorN(1)), Tail(vectorN(3)))[GridSlot(ax)])

\* lines 180-181: zn1 -= 1000. in equivalent-source mode
Bottom(ax) ==
    IF equiSourceLayer /\ ax = 3
    THEN [g \in 1..meshNC |-> Lower(ax)[g] - EquiDepth]
    ELSE Lower(ax)

\* lines 140-149: the indices (from 0) of the active cells.  A mask is
\* enumerated from 1 and the positions of its true entries are shifted back
RECURSIVE TruePositions(_, _)
TruePositions(mask, p) ==
    IF p > Len(mask) THEN <<>>
    ELSE (IF mask[p] THEN <<p>> ELSE <<>>) \o TruePositions(mask, p + 1)
inds ==
    IF actInd.kind = "bool"
    THEN [k \in 1..Len(TruePositions(actInd.val, 1)) |-> TruePositions(actInd.val, 1)[k] - 1]
    ELSE IF actInd.kind = "index" THEN actInd.val
    ELSE [g \in 1..meshNC |-> g - 1]

\* the projector of lines 154-157 can be built: scipy refuses a row index
\* below 0 or beyond the shape with a ValueError
InRangeAlways == TRUE
InRange == \A k \in 1..Len(inds) : inds[k] \in 0..(meshNC - 1)

\* P, of shape (mesh.nC, nC): a one at (inds[k], k) for every k
P == [g \in 0..(meshNC - 1) |-> [k \in 0..(Len(inds) - 1) |->
        IF inds[k + 1] = g THEN 1 ELSE 0]]

\* P.T * np.c_[lo, hi] (lines 183-185): one (lower, upper) pair per active cell
PT(lo, hi) ==
    LET Pm == P
        nAct == Len(inds)
        nGrid == meshNC
    IN [k \in 1..nAct |->
          <<SumSeq([g \in 1..nGrid |-> Pm[g - 1][k - 1] * lo[g]]),
            SumSeq([g \in 1..nGrid |-> Pm[g - 1][k - 1] * hi[g]])>>]

\* ------------------------------------------------------------ facade
Ops == {"G", "fields", "getJ", "Jvec", "Jtvec", "getJtJdiag"}

\* the forward-only branch of fields (lines 44-49) does not go through self.G
Streaming(o) == o = "fields" /\ forwardOnly

\* line 70: the column sums are taken only while self.gtgdiag is None
CachedNever == FALSE
Cached == gtgdiag # <<>>

\* line 112: the matrix is built only while self._G is None
NeedsBuildAlways == TRUE
NeedsBuild == G = <<>>

\* what operation o returns from the matrix M (lines 52-54, 77-83, 92, 97-99,
\* 104-105, 116); matrices are returned flattened
Answer(o, m, v, M, gtg) ==
    CASE o = "fields" -> MatVec(M, MapApply(m))
      [] o = "getJ" -> Flatten([i \in 1..Len(M) |-> Scale(MapDeriv, M[i])])
      [] o = "Jvec" -> MatVec(M, Scale(MapDeriv, v))
      [] o = "Jtvec" -> Scale(MapDeriv, MatTVec(M, v))
      [] o = "getJtJdiag" -> Scale(MapDeriv * MapDeriv, gtg)
      [] OTHER -> Flatten(M)

\* the call returns normally with value r
Return(r) ==
    /\ pc' = "idle"
    /\ ret' = r
    /\ err' = ""

\* the call ends with exception e
Raise(e) ==
    /\ pc' = "idle"
    /\ ret' = <<>>
    /\ err' = e

\* Intrgl_Fwr_Op got matrix M from job.calculate() (line 202) and the call
\* that asked for it goes on: fields returns mkvc(M) in forward-only mode
\* (line 49); otherwise the G property stores M (line 114) and the
\* operation computes its answer from it
Deliver(M) ==
    IF Streaming(op.name)
    THEN /\ Return(Flatten(M))
         /\ UNCHANGED <<G, gtgdiag, builds, sums>>
    ELSE /\ G' = M
         /\ builds' = builds + 1
         /\ IF op.name = "getJtJdiag"
            THEN gtgdiag' = ColSumSq(M) /\ sums' = sums + 1   \* line 77
            ELSE UNCHANGED <<gtgdiag, sums>>
         /\ Return(Answer(op.name, op.m, op.v, M, gtgdiag'))

\* A call of the facade, up to the point where it returns, fails, or enters
\* Intrgl_Fwr_Op (past line 136).
\*   fields (41-54), getJtJdiag (62-83), getJ (85-92), Jvec (94-99),
\*   Jtvec (101-105), G (107-116), Intrgl_Fwr_Op (135-200)
\* On a paired forward-only instance only fields is called.  m is the model
\* (getJ, Jvec and Jtvec use it through rhoMap.deriv alone, which does not
\* depend on it for these maps, so there it is left out), v the vector of
\* Jvec (model space) and Jtvec (data space) and, for getJtJdiag, the
\* diagonal of W (<<>> for W = None; line 75 reads it and nothing uses it).
Call(o, m, v) ==
    /\ pc = "idle"
    /\ (forwardOnly /\ paired) => o = "fields"
    /\ IF o \in {"fields", "getJtJdiag"} THEN m \in ModelVecs ELSE m = <<>>
    /\ IF o = "Jvec" THEN v \in ModelVecs
       ELSE IF o = "Jtvec" THEN v \in DataVecs
       ELSE IF o = "getJtJdiag" THEN v \in DataVecs \cup {<<>>}
       ELSE v = <<>>
    /\ op' = [name |-> o, m |-> m, v |-> v]
    /\ IF Streaming(o)
       THEN \* fields -> Intrgl_Fwr_Op(m = rhoMap*m): line 136 maps m again
            /\ model' = MapApply(MapApply(m))
            /\ pc' = "geom"
            /\ UNCHANGED <<G, gtgdiag, builds, sums, ret, err>>
       ELSE /\ model' = IF o = "getJtJdiag" THEN m ELSE model   \* line 68
            /\ IF o = "getJtJdiag" /\ Cached
               THEN \* lines 70, 83: the cached vector, no access to G
                    /\ Return(Answer(o, m, v, G, gtgdiag))
                    /\ UNCHANGED <<G, gtgdiag, builds, sums>>
               ELSE IF ~paired
               THEN Raise("NotPaired") /\ UNCHANGED <<G, gtgdiag, builds, sums>>
               ELSE IF NeedsBuild
               THEN pc' = "geom" /\ UNCHANGED <<G, gtgdiag, builds, sums, ret, err>>
               ELSE /\ IF o = "getJtJdiag"
                       THEN gtgdiag' = ColSumSq(G) /\ sums' = sums + 1   \* line 77
                       ELSE UNCHANGED <<gtgdiag, sums>>
                    /\ Return(Answer(o, m, v, G, gtgdiag'))
                    /\ UNCHANGED <<G, builds>>
    /\ UNCHANGED <<cfgVars, paired, store, jobVars, calls, store0, geom>>

\* Intrgl_Fwr_Op from the selector to the Forward job, lines 138-200: the
\* projector, the corner arrays, the receivers of the survey, the job
Intrgl_Fwr_Op ==
    /\ pc = "geom"
    /\ IF ~InRange
       THEN Raise("ValueError") /\ UNCHANGED geom
       ELSE /\ Xn' = PT(Bottom(1), Upper(1))
            /\ Yn' = PT(Bottom(2), Upper(2))
            /\ Zn' = PT(Bottom(3), Upper(3))
            /\ IF paired
               THEN pc' = "job" /\ UNCHANGED <<ret, err>>
               ELSE Raise("AttributeError")   \* self.survey is None at line 187
    /\ UNCHANGED <<cfgVars, paired, G, gtgdiag, model, store, op, jobVars,
                   builds, calls, store0, sums>>

\* problem.pair(survey): the instance is bound to its receivers (line 109)
Pair ==
    /\ pc = "idle"
    /\ ~paired
    /\ paired' = TRUE
    /\ UNCHANGED <<cfgVars, G, gtgdiag, model, store, pc, op, jobVars, ret, err,
                   builds, calls, store0, sums, geom>>

\* ------------------------------------------------------------ assembly
EmptyRows == [i \in 1..nD |-> <<>>]
Computed == {i \in 1..nD : rows[i] # <<>>}

\* line 252: the truthiness of the selector picks parallel or sequential
Truthy(b) == b \notin {"None", ""}

\* line 255: the selectors the assertion lets through
Asserted == {"dask", "multiprocessing"}

\* the store of line 265 is written and read by the dask branch alone
ToZarr == parallelized = "dask" /\ storeG

\* a row computed in forward-only mode has shape (1,), not the (1, nC) that
\* line 274 declares: where dask materializes it the mismatch either raises or
\* broadcasts the scalar over the declared columns; both outcomes are kept
Mismatch == forwardOnly /\ nC # 1
Coerce(row) == IF Len(row) = nC THEN row ELSE [c \in 1..nC |-> row[1]]

\* np.vstack(result), da.vstack(buildMat): in the order of the task list,
\* which is the order of the receivers (lines 273-276, 295-299, 303-308)
VStackCompletion(rws, ord) == [k \in 1..Len(ord) |-> rws[ord[k]]]
VStack(rws, ord) == rws

\* lines 252-308, after the planner loop has ended: the backend is checked
\* and chosen; the dask branch loads an existing store, or builds the task
\* graph, rechunks it and, when storing, creates the zarr array
Dispatch ==
    /\ pc = "plan"
    /\ ~OverBudget
    /\ IF ~Truthy(parallelized)
       THEN /\ pc' = "seq"
            /\ rows' = EmptyRows /\ running' = {} /\ order' = <<>>
            /\ UNCHANGED <<G, gtgdiag, builds, ret, err, store, sums>>
       ELSE IF parallelized \notin Asserted
       THEN /\ Raise("AssertionError")
            /\ UNCHANGED <<G, gtgdiag, builds, store, rows, running, order, sums>>
       ELSE IF parallelized = "dask" /\ store.exists
       THEN /\ Deliver(store.data)
            /\ UNCHANGED <<store, rows, running, order>>
       ELSE IF parallelized = "dask" /\ (rowChunk = 0 \/ colChunk = 0)
       THEN \* rechunk to an empty block shape (line 279) divides by zero
            /\ Raise("ZeroDivisionError")
            /\ UNCHANGED <<G, gtgdiag, builds, store, rows, running, order, sums>>
       ELSE /\ pc' = "rows"
            /\ rows' = EmptyRows /\ running' = {} /\ order' = <<>>
            /\ store' = IF ToZarr THEN CreatedStore ELSE store
            /\ UNCHANGED <<G, gtgdiag, builds, ret, err, sums>>
    /\ UNCHANGED <<cfgVars, paired, model, op, dbl, rowChunk, colChunk,
                   calls, store0, progVars, geom>>

\* a worker or a scheduler thread takes the task of receiver i; the pool has
\* n_cpu workers (line 293)
StartRow(i) ==
    /\ pc = "rows"
    /\ rows[i] = <<>>
    /\ i \notin running
    /\ parallelized = "multiprocessing" => Cardinality(running) < n_cpu
    /\ running' = running \cup {i}
    /\ calls' = calls + 1
    /\ UNCHANGED <<cfgVars, paired, G, gtgdiag, model, store, pc, op, dbl,
                   rowChunk, colChunk, rows, order, ret, err, builds, store0,
                   progVars, sums, geom>>

\* the task of receiver i completes with its row
CompleteRow(i) ==
    /\ pc = "rows"
    /\ i \in running
    /\ running' = running \ {i}
    /\ rows' = [rows EXCEPT ![i] = calcTrow(rxLoc[i])]
    /\ order' = Append(order, i)
    /\ store' = IF ToZarr THEN [store EXCEPT !.computed = @ \cup {i}] ELSE store
    /\ UNCHANGED <<cfgVars, paired, G, gtgdiag, model, pc, op, dbl,
                   rowChunk, colChunk, ret, err, builds, calls, store0, progVars, sums, geom>>

\* da.to_zarr (line 284) writes row block b once its rows are computed
WriteBlock(b) ==
    /\ pc = "rows"
    /\ ToZarr
    /\ b \in Blocks
    /\ BlockRows(b) \subseteq Computed
    /\ BlockRows(b) \cap store.written = {}
    /\ \E raises \in {x \in BOOLEAN : x => Mismatch} :
         IF raises
         THEN /\ Raise("ValueError")
              /\ rows' = EmptyRows /\ running' = {} /\ order' = <<>>
              /\ UNCHANGED store
         ELSE /\ store' = [store EXCEPT
                    !.data = [i \in 1..nD |->
                                IF i \in BlockRows(b) THEN Coerce(rows[i]) ELSE @[i]],
                    !.written = @ \cup BlockRows(b)]
              /\ UNCHANGED <<pc, ret, err, rows, running, order>>
    /\ UNCHANGED <<cfgVars, paired, G, gtgdiag, model, op, dbl,
                   rowChunk, colChunk, builds, calls, store0, progVars, sums, geom>>

\* every block is in the store: G = da.from_zarr(Jpath) (line 286)
FinishZarr ==
    /\ pc = "rows"
    /\ ToZarr
    /\ store.written = 1..nD
    /\ Deliver(store.data)
    /\ UNCHANGED <<cfgVars, paired, model, store, op, jobVars, calls, store0, geom>>

\* every row is computed: stack.compute() (line 289), or the pool is joined
\* and the result list stacked (lines 296-299)
FinishStack ==
    /\ pc = "rows"
    /\ ~ToZarr
    /\ Computed = 1..nD
    /\ \E raises \in {x \in BOOLEAN : x => (Mismatch /\ parallelized = "dask")} :
         IF raises
         THEN Raise("ValueError") /\ UNCHANGED <<G, gtgdiag, builds, sums>>
         ELSE Deliver(VStack([i \in 1..nD |->
                                IF parallelized = "dask" THEN Coerce(rows[i]) ELSE rows[i]],
                             order))
    /\ UNCHANGED <<cfgVars, paired, model, store, op, jobVars, calls, store0, geom>>

\* arg of Forward.progress, np.floor(ind/total*10.) (line 393): ind and total
\* are ints, so the quotient is floored first where `/` is floor division
ProgressArg(ind, total) ==
    IF trueDiv THEN (10 * ind) \div total ELSE (ind \div total) * 10

\* one iteration of the sequential loop, lines 304-306, with ii = Len(order):
\* the row of receiver ii, then self.progress(ii, self.nD) (lines 393-396)
SeqRow ==
    /\ pc = "seq"
    /\ Len(order) < nD
    /\ rows' = [rows EXCEPT ![Len(order) + 1] = calcTrow(rxLoc[Len(order) + 1])]
    /\ order' = Append(order, Len(order) + 1)
    /\ calls' = calls + 1
    /\ LET arg == ProgressArg(Len(order), nD)
       IN IF arg > progressIndex
          THEN /\ reported' = Append(reported, arg)
               /\ progressIndex' = arg
          ELSE UNCHANGED <<progressIndex, reported>>
    /\ UNCHANGED <<cfgVars, paired, G, gtgdiag, model, store, pc, op, dbl,
                   rowChunk, colChunk, running, ret, err, builds, store0, sums, geom>>

\* the loop is over: G = np.vstack(result), line 308
SeqFinish ==
    /\ pc = "seq"
    /\ Len(order) = nD
    /\ Deliver(VStack(rows, order))
    /\ UNCHANGED <<cfgVars, paired, model, store, op, jobVars, calls, store0, geom>>

\* the run is interrupted while rows are being computed; the exception ends
\* the call, the job and its partial rows are dropped, the store stays as it is
Interrupt ==
    /\ pc \in {"rows", "seq"}
    /\ Raise("Interrupted")
    /\ rows' = EmptyRows /\ running' = {} /\ order' = <<>>
    /\ progressIndex' = -1 /\ reported' = <<>>
    /\ UNCHANGED <<cfgVars, paired, G, gtgdiag, model, store, op, dbl,
                   rowChunk, colChunk, builds, calls, store0, sums, geom>>

\* ------------------------------------------------------------ specification
\* the whole of a grid of nC x 1 x 1 cells is active
PlainGrid ==
    /\ mesh = [kind |-> "tensor", n |-> <<nC, 1, 1>>]
    /\ actInd = NoSelector
    /\ equiSourceLayer = FALSE

TypeCfg ==
    /\ nD \in 1..MaxND
    /\ nC \in 1..MaxNC
    /\ n_cpu \in 1..MaxCpu
    /\ maxRAM \in Budgets
    /\ parallelized \in Backends
    /\ forwardOnly \in BOOLEAN
    /\ storeG \in BOOLEAN
    /\ rhoMap \in {"id", "double"}
    /\ trueDiv \in BOOLEAN
    /\ PlainGrid

\* a fresh, idle instance
Fresh ==
    /\ Xn = <<>> /\ Yn = <<>> /\ Zn = <<>>
    /\ G = <<>>
    /\ gtgdiag = <<>>
    /\ model = <<>>
    /\ pc = "idle"
    /\ op = NoOp
    /\ dbl = 0
    /\ rowChunk = 0
    /\ colChunk = 0
    /\ rows = EmptyRows
    /\ running = {}
    /\ order = <<>>
    /\ ret = <<>>
    /\ err = ""
    /\ builds = 0
    /\ calls = 0
    /\ store0 = store
    /\ progressIndex = -1
    /\ reported = <<>>
    /\ sums = 0

\* The instance starts unpaired.  The planner's inputs are narrowed to true
\* division and the largest budget (SpecPlan covers the others).  The store
\* and Forward.storeG are read by the dask branch alone: for the other
\* selectors the flag is left at its default, and the store is absent or the
\* one a stored run of the same problem has left.
Init ==
    /\ TypeCfg
    /\ trueDiv
    /\ maxRAM = BudgetStep * MaxBudget
    /\ paired = FALSE
    /\ store \in {NoStore, StaleStore, ValidStore}
    /\ parallelized # "dask" => storeG /\ store # StaleStore
    /\ parallelized \notin Recognized => store = NoStore
    /\ Fresh

Next ==
    \/ pc = "idle" /\ \E o \in Ops, m \in Vecs, v \in Vecs : Call(o, m, v)
    \/ Pair
    \/ Intrgl_Fwr_Op
    \/ Calculate
    \/ PlanDouble
    \/ Dispatch
    \/ \E i \in 1..nD : StartRow(i)
    \/ \E i \in 1..nD : CompleteRow(i)
    \/ \E b \in 1..nD : WriteBlock(b)
    \/ FinishZarr
    \/ FinishStack
    \/ SeqRow
    \/ SeqFinish
    \/ Interrupt

Spec == Init /\ [][Next]_vars

\* The planner on its own: every budget, both divisions, the sequential
\* backend; the steps of a call run to completion once started
InitPlan ==
    /\ TypeCfg
    /\ parallelized = "None"
    /\ ~forwardOnly
    /\ storeG
    /\ paired = TRUE
    /\ rhoMap = "id"
    /\ store = NoStore
    /\ Fresh

NextPlan ==
    \/ \E m \in Vecs, v \in Vecs : Call("G", m, v)
    \/ Intrgl_Fwr_Op
    \/ Calculate
    \/ PlanDouble
    \/ Dispatch
    \/ SeqRow
    \/ SeqFinish

SpecPlan ==
    /\ InitPlan
    /\ [][NextPlan]_vars
    /\ WF_vars(Intrgl_Fwr_Op)
    /\ WF_vars(Calculate)
    /\ WF_vars(PlanDouble)
    /\ WF_vars(Dispatch)
    /\ WF_vars(SeqRow)
    /\ WF_vars(SeqFinish)

\* The sequential loop on its own, over runs long enough for a decile to
\* repeat: both falsy selectors, both divisions, full and forward-only
InitSeq ==
    /\ nD \in 1..MaxRows
    /\ nC = 1
    /\ n_cpu = 1
    /\ maxRAM = BudgetStep * MaxBudget
    /\ parallelized \in {"None", ""}
    /\ forwardOnly \in BOOLEAN
    /\ storeG = TRUE
    /\ paired = TRUE
    /\ rhoMap = "id"
    /\ trueDiv \in BOOLEAN
    /\ PlainGrid
    /\ store = NoStore
    /\ Fresh

NextSeq ==
    \/ \E o \in {"G", "fields"}, m \in Vecs, v \in Vecs : Call(o, m, v)
    \/ Intrgl_Fwr_Op
    \/ Calculate
    \/ PlanDouble
    \/ Dispatch
    \/ SeqRow
    \/ SeqFinish
    \/ Interrupt

SpecSeq == InitSeq /\ [][NextSeq]_vars

\* The geometry on its own: every mesh and selector, with and without the
\* equivalent-source layer, one receiver, a full sequential assembly
InitGeom ==
    /\ mesh \in Meshes
    /\ actInd \in Selectors
    /\ equiSourceLayer \in BOOLEAN
    /\ nD = 1
    /\ nC = Len(inds)
    /\ n_cpu = 1
    /\ maxRAM = BudgetStep * MaxBudget
    /\ parallelized = "None"
    /\ forwardOnly = FALSE
    /\ storeG = TRUE
    /\ paired = TRUE
    /\ rhoMap = "id"
    /\ trueDiv = TRUE
    /\ store = NoStore
    /\ Fresh

NextGeom ==
    \/ \E m \in Vecs, v \in Vecs : Call("G", m, v)
    \/ Intrgl_Fwr_Op
    \/ Calculate
    \/ PlanDouble
    \/ Dispatch
    \/ SeqRow
    \/ SeqFinish

SpecGeom == InitGeom /\ [][NextGeom]_vars

\* The selectors on their own: every selector over a row of cells, full and
\* forward-only, the dask backend with and without a store at Jpath, under
\* the budget of one entry and under the largest
InitSel ==
    /\ mesh \in {[kind |-> "tensor", n |-> <<a, 1, 1>>] : a \in 1..MaxDim}
    /\ actInd \in Selectors
    /\ equiSourceLayer = FALSE
    /\ nD = 1
    /\ nC = Len(inds)
    /\ n_cpu = 1
    /\ maxRAM \in {ElemSize, BudgetStep * MaxBudget}
    /\ parallelized = "dask"
    /\ forwardOnly \in BOOLEAN
    /\ storeG = TRUE
    /\ paired = TRUE
    /\ rhoMap = "id"
    /\ trueDiv = TRUE
    /\ store \in {NoStore, StaleStore}
    /\ Fresh

NextSel ==
    \/ \E o \in {"G", "fields"}, m \in Vecs, v \in Vecs : Call(o, m, v)
    \/ Intrgl_Fwr_Op
    \/ Calculate
    \/ PlanDouble
    \/ Dispatch
    \/ \E i \in 1..nD : StartRow(i)
    \/ \E i \in 1..nD : CompleteRow(i)
    \/ \E b \in 1..nD : WriteBlock(b)
    \/ FinishZarr

SpecSel == InitSel /\ [][NextSel]_vars

\* ------------------------------------------------------------ properties
\* what the sequential branch returns for the receivers (lines 303-308):
\* row i is the kernel row of rxLoc[i]
SequentialG == [i \in 1..nD |-> KernRow(rxLoc[i])]

\* the planner loop has ended and the assembly is under way
Planned == pc \in {"rows", "seq"}

\* the estimate at the planner's starting point (nD/n_cpu, nC/n_cpu)
StartRAM == TotRAM(FloorStart(nD), FloorStart(nC))

\* C1: the planner loop ends for every nD, nC, n_cpu and every positive
\* budget, also a budget below one entry per worker: a job that has started
\* gets to the end of the loop, and the cap on the doublings is never what
\* stops it.
C1_PlannerTerminates ==
    /\ [](pc = "plan" /\ OverBudget => dbl < MaxDoublings)
    /\ (pc = "job" ~> (pc = "plan" /\ ~OverBudget))

\* the loop has ended under a budget below one entry per worker, after the
\* quotients have underflowed
C1_Witness ==
    /\ pc = "plan" /\ ~OverBudget
    /\ maxRAM < ElemSize * n_cpu
    /\ trueDiv /\ dbl >= DoubleMinExp

\* C2: the chunk shape the planner leaves has an estimate of at most the
\* budget, and when the budget is below the estimate of the starting point
\* the product rowChunk * colChunk is strictly below the starting product.
C2_WithinBudget ==
    Planned =>
        /\ TotRAM(rowChunk, colChunk) <= maxRAM
        /\ maxRAM < StartRAM =>
             rowChunk * colChunk < FloorStart(nD) * FloorStart(nC)

\* the planner has shrunk a starting point that was over the budget to a
\* non-empty block
C2_Witness ==
    /\ Planned
    /\ maxRAM < StartRAM
    /\ dbl > 0 /\ rowChunk >= 1 /\ colChunk >= 1

\* C3: every backend returns the matrix the sequential backend returns for
\* the same inputs, whatever the store at Jpath holds.
C3_BackendsAgree == G # <<>> => G = SequentialG

\* C4: a matrix assembled with no store at Jpath has the kernel row of
\* rxLoc[i] as its row i, whatever the order in which the rows completed.
C4_RowOrder == (G # <<>> /\ ~store0.exists) => \A i \in 1..nD : G[i] = KernRow(rxLoc[i])

\* a parallel backend has assembled G and the last receiver's row was the
\* first to complete
C4_Witness ==
    /\ G # <<>> /\ ~store0.exists
    /\ parallelized \in {"dask", "multiprocessing"}
    /\ nD > 1 /\ Len(order) = nD /\ order[1] = nD

\* C5: fields in forward-only mode returns G.(rhoMap*m), entry i being the
\* product of the kernel row of receiver i with rhoMap*m, for every map and
\* backend and whether or not a store exists.
C5_StreamingIsProduct ==
    (pc = "idle" /\ forwardOnly /\ paired /\ op.name = "fields" /\ err = "") =>
        ret = MatVec(SequentialG, MapApply(op.m))

\* C6: with forwardOnly off, G is assigned at most once; once built it is
\* never replaced; an access that returns normally leaves it built.
C6_BuiltOnce ==
    /\ [](builds <= 1 /\ (builds = 1 <=> G # <<>>))
    /\ [][G # <<>> => G' = G]_vars
    /\ []((pc = "idle" /\ op.name \in Ops /\ ~forwardOnly /\ err = "") => G # <<>>)

\* Jvec has returned from a matrix that an earlier getJtJdiag had built
C6_Witness ==
    /\ pc = "idle" /\ op.name = "Jvec" /\ err = ""
    /\ gtgdiag # <<>> /\ G # <<>> /\ builds = 1

\* C7: an assembly that finds at Jpath the store a stored assembly of the
\* same inputs has written returns that matrix and calls calcTrow zero times,
\* under every backend.
C7_RoundTrip ==
    (G # <<>> /\ store0 = ValidStore) => (G = store0.data /\ calls = 0)

\* C8: a store written by the assembly exists at Jpath only if every one of
\* the nD rows has been computed.
C8_StoreOnlyWhenComplete ==
    (store.exists /\ store.origin = "run") => store.computed = 1..nD

\* C9: on an unpaired instance every operation fails with the not-paired
\* error, in forward-only mode too, no job is started, the store is
\* untouched and G stays unbuilt.
C9_UnpairedFails ==
    ~paired =>
        /\ pc = "idle" /\ G = <<>> /\ store = store0
        /\ op.name \in Ops => err = "NotPaired"

\* C10: a selector outside dask, multiprocessing and None is rejected before
\* the planner runs, before any row is computed and before the store is
\* touched: no job with such a selector gets into the planner or an assembly.
C10_RejectedAtConstruction ==
    parallelized \notin Recognized => pc \in {"idle", "geom", "job"}

\* the decile of the run that row ii (from 0) stands for: floor(10 * ii / nD)
Decile(ii) == (10 * ii) \div nD

\* C11: in a sequential run the reported deciles are strictly increasing, and
\* every decile that a row of the run has reached has been reported: a
\* report is made at each 10% boundary the run crosses.
C11_ProgressReports ==
    (~Truthy(parallelized) /\ pc \in {"seq", "idle"}) =>
        /\ \A j \in 1..(Len(reported) - 1) : reported[j] < reported[j + 1]
        /\ \A k \in 1..Len(order) : \E j \in 1..Len(reported) : reported[j] = Decile(k - 1)

KernelRowsHeld == running

\* the receivers whose result is held in memory: the rows being computed
\* and the computed rows of the task graph or result list (lines 273-276,
\* 295, 303-306), less the blocks da.to_zarr has written out
HeldRows ==
    running \cup (Computed \ (IF ToZarr THEN store.written ELSE {}))

\* the widest result held: a kernel row has nC columns
HeldWidth ==
    IF HeldRows = {} THEN 0
    ELSE IF running # {} THEN nC
    ELSE Len(rows[CHOOSE i \in HeldRows : \A j \in HeldRows : Len(rows[j]) <= Len(rows[i])])

\* C13: during an assembly at most rowChunk rows and at most colChunk columns
\* of entries are held at once, and in forward-only mode at most one
\* receiver's kernel row.
C13_HeldWithinChunk ==
    Planned =>
        /\ Cardinality(HeldRows) <= rowChunk
        /\ HeldWidth <= colChunk
        /\ forwardOnly => Cardinality(KernelRowsHeld) <= 1

\* C14: in the planner rowChunk and colChunk are at least 1 at the start and
\* after every doubling, for every nD, nC and n_cpu, and no doubling
\* increases either of them.
C14_ChunksAtLeastOne ==
    /\ [](pc = "plan" => (rowChunk >= 1 /\ colChunk >= 1))
    /\ [][(pc = "plan" /\ pc' = "plan") =>
            (rowChunk' <= rowChunk /\ colChunk' <= colChunk)]_vars

\* the cells a selector names, from 0: the index list as given, the true
\* positions of a mask in ascending order, every cell of the grid for None
MaskSet == {q - 1 : q \in {r \in DOMAIN actInd.val : actInd.val[r]}}
Selected ==
    IF actInd.kind = "index" THEN actInd.val
    ELSE IF actInd.kind = "bool"
    THEN [k \in 1..Cardinality(MaskSet) |->
            CHOOSE x \in MaskSet : Cardinality({y \in MaskSet : y < x}) = k - 1]
    ELSE [g \in 1..meshNC |-> g - 1]

\* the geometry arrays have been built
Built == Xn # <<>> /\ Yn # <<>> /\ Zn # <<>>

\* C15: for a selector within the grid the arrays Xn, Yn, Zn have one row per
\* selected cell, in the order of the selection, and row k holds the lower
\* and upper corner of that cell along the axis: the cell with indices
\* (i, j, k) along x, y, z is cell i + nx*j + nx*ny*k of the grid, and lies
\* between nodes i and i+1, j and j+1, k and k+1 (its bottom lowered by
\* EquiDepth in equivalent-source mode).
C15_GeometryOfSelection ==
    (Built /\ \A s \in 1..Len(Selected) : Selected[s] \in 0..(meshNC - 1)) =>
        /\ Len(Xn) = Len(Selected) /\ Len(Yn) = Len(Selected) /\ Len(Zn) = Len(Selected)
        /\ \A s \in 1..Len(Selected) :
             \A i \in 0..(mesh.n[1] - 1), j \in 0..(mesh.n[2] - 1), k \in 0..(mesh.n[3] - 1) :
                Selected[s] = i + mesh.n[1] * j + mesh.n[1] * mesh.n[2] * k =>
                    /\ Xn[s] = <<Node(1, i), Node(1, i + 1)>>
                    /\ Yn[s] = <<Node(2, j), Node(2, j + 1)>>
                    /\ Zn[s] = <<Node(3, k) - (IF equiSourceLayer THEN EquiDepth ELSE 0),
                                 Node(3, k + 1)>>

\* the arrays of a tensor mesh with several cells along every axis have been
\* built in equivalent-source mode for a descending index list
C15_Witness ==
    /\ Built /\ mesh.kind = "tensor" /\ equiSourceLayer
    /\ mesh.n = <<MaxDim, MaxDim, MaxDim>>
    /\ actInd.kind = "index" /\ Len(actInd.val) = 2 /\ actInd.val[1] > actInd.val[2]
    /\ actInd.val[2] >= 0

\* C16: when the selector names a cell outside 0..mesh.nC-1, Intrgl_Fwr_Op
\* fails while it builds the geometry with the index error of the projector:
\* no job is ever started, no row kernel is evaluated, the store at Jpath is
\* as it was, the corner arrays and G stay unbuilt, and a call that has
\* entered Intrgl_Fwr_Op ends with that error.
C16_OutOfRangeFails ==
    (\E s \in 1..Len(Selected) : Selected[s] \notin 0..(meshNC - 1)) =>
        /\ pc \in {"idle", "geom"}
        /\ calls = 0 /\ rows = EmptyRows /\ running = {}
        /\ store = store0
        /\ G = <<>> /\ ~Built
        /\ (pc = "idle" /\ op.name \in Ops) => err = "ValueError"

\* a forward-only call under a mask with a true entry beyond the grid has
\* failed, with a store at Jpath
C16_Witness ==
    /\ pc = "idle" /\ op.name = "fields" /\ forwardOnly /\ err = "ValueError"
    /\ actInd.kind = "bool" /\ Len(actInd.val) > meshNC /\ actInd.val[Len(actInd.val)]
    /\ store.exists

\* C17: a forward-only instance never creates or overwrites the store at
\* Jpath (it is as the job found it), never reads it (a call of fields that
\* returns has evaluated the kernel row of every receiver), and its G stays
\* unbuilt.
C17_ForwardOnlyLeavesStore ==
    forwardOnly =>
        /\ store = store0
        /\ G = <<>>
        /\ (pc = "idle" /\ paired /\ op.name = "fields" /\ err = "") => calls = nD

====
